---- MODULE Spec2Model ----
(***************************************************************************)
(* A model of volatility/plugins/overlays/linux/linux.py: the Linux        *)
(* profile (archive ingestion, symbol-map parsing, compilation), the       *)
(* compatibility accessors of the kernel structures, the per-process       *)
(* address-space factory and the timespec arithmetic.                      *)
(*                                                                         *)
(* The components do not share state, so each has its own specification    *)
(* (SpecSysMap, SpecCompile, SpecAccessor, SpecAS, SpecTime); the          *)
(* variables of the other components stay at their idle values.            *)
(***************************************************************************)
EXTENDS Integers, Sequences, FiniteSets, TLC

VARIABLES
    \* ---- Linux32.parse_system_map ----
    data,           \* the symbol text, as data.splitlines() yields it
    sys_map_result, \* outcome of the last parse_system_map(data) call
    \* ---- Linux32.compile / parse_profile_file / load_vtypes ----
    archive,        \* the zip file: sequence of [name, payload] entries
    dwarfparser,    \* TRUE iff the dwarfparser import succeeded
    profile_file,   \* TRUE iff profile_file / session.profile_file is set
    constants,      \* the profile's constant table
    types,          \* the profile's registered vtypes (set of layout ids)
    ready,          \* TRUE once the base class compile has frozen the profile
    reads,          \* number of times the archive was opened and parsed
    calls,          \* number of compile() calls made
    outcome,        \* how the last compile() call ended
    vtypes,         \* what load_vtypes returned in the last call
    \* ---- compatibility accessors ----
    self,           \* the structure instance the accessor is called on
    acc,            \* the last accessor call and its result
    \* ---- task_struct.get_process_address_space ----
    obj_vm,         \* the boot address space of the task
    task,           \* the task: pid and raw mm.pgd
    as_asserts,     \* TRUE iff the address space class rejects a missing dtb
    process_as,     \* result of the last get_process_address_space call
    \* ---- timespec ----
    tconsts,        \* addresses of the three boot time constants (0 = absent)
    tmem,           \* the timespecs kernel memory holds at those addresses
    tres,           \* the last timespec accessor call and its result
    sum             \* operands and results of the last additions

sysmapvars   == <<data, sys_map_result>>
compilevars  == <<archive, dwarfparser, profile_file, constants, types, ready,
                  reads, calls, outcome, vtypes>>
accessorvars == <<self, acc>>
asvars       == <<obj_vm, task, as_asserts, process_as>>
timevars     == <<tconsts, tmem, tres, sum>>
vars == <<sysmapvars, compilevars, accessorvars, asvars, timevars>>

(***************************************************************************)
(* Characters, tokens and lines.  A line is a sequence of one-character    *)
(* strings, a token is a maximal run of non-blank characters.              *)
(***************************************************************************)
HexDigits == <<"0", "1", "2", "3", "4", "5", "6", "7", "8", "9",
               "a", "b", "c", "d", "e", "f">>
UpperHex  == <<"A", "B", "C", "D", "E", "F">>

IsHexDigit(c) == (\E i \in 1..Len(HexDigits) : HexDigits[i] = c)
                 \/ (\E i \in 1..Len(UpperHex) : UpperHex[i] = c)

HexDigitVal(c) ==
    IF \E i \in 1..Len(HexDigits) : HexDigits[i] = c
    THEN (CHOOSE i \in 1..Len(HexDigits) : HexDigits[i] = c) - 1
    ELSE (CHOOSE i \in 1..Len(UpperHex) : UpperHex[i] = c) + 9

\* long(address, 16) accepts an optional 0x / 0X prefix.
HexBody(tok) ==
    IF Len(tok) >= 2 /\ tok[1] = "0" /\ tok[2] \in {"x", "X"}
    THEN SubSeq(tok, 3, Len(tok)) ELSE tok

\* TRUE iff long(tok, 16) does not raise ValueError.
IsHex(tok) ==
    LET b == HexBody(tok)
    IN  Len(b) > 0 /\ \A i \in 1..Len(b) : IsHexDigit(b[i])

RECURSIVE HexFold(_, _)
HexFold(digits, value) ==
    IF digits = <<>> THEN value
    ELSE HexFold(Tail(digits), value * 16 + HexDigitVal(Head(digits)))

\* long(tok, 16) of a token for which IsHex holds.
long16(tok) == HexFold(HexBody(tok), 0)

IsSpace(c) == c \in {" ", "\t"}

\* line.strip().split(): the maximal runs of non-blank characters.
RECURSIVE SplitFrom(_, _, _)
SplitFrom(line, cur, toks) ==
    IF line = <<>>
    THEN IF cur = <<>> THEN toks ELSE Append(toks, cur)
    ELSE IF IsSpace(Head(line))
         THEN SplitFrom(Tail(line), <<>>,
                        IF cur = <<>> THEN toks ELSE Append(toks, cur))
         ELSE SplitFrom(Tail(line), Append(cur, Head(line)), toks)

split(line) == SplitFrom(line, <<>>, <<>>)

\* dict item assignment: m[k] = v
Put(m, k, v) == [x \in (DOMAIN m) \cup {k} |-> IF x = k THEN v ELSE m[x]]

EmptyMap == [x \in {} |-> 0]

(***************************************************************************)
(* Linux32.parse_system_map.  The tuple unpacking of line 369 is outside   *)
(* the try block: a line that does not split into exactly three tokens     *)
(* raises ValueError out of the function.  Only long() is guarded.         *)
(***************************************************************************)
RECURSIVE ParseLines(_, _)
ParseLines(lines, sys_map) ==
    IF lines = <<>> THEN [raised |-> "none", sys_map |-> sys_map]
    ELSE LET toks == split(Head(lines))
         IN  IF Len(toks) # 3
             THEN [raised |-> "ValueError", sys_map |-> sys_map]
             ELSE IF IsHex(toks[1])
                  THEN ParseLines(Tail(lines),
                                  Put(sys_map, toks[3], long16(toks[1])))
                  ELSE ParseLines(Tail(lines), sys_map)

parse_system_map(text) == ParseLines(text, EmptyMap)

\* ---- the symbol texts the model draws from ----
MaxLines == 3

Sp == <<" ">>
TokA1  == <<"1", "f">>          \* 0x1f
TokA2  == <<"0", "x", "C", "0">> \* 0xc0, prefixed, upper case
TokBad == <<"z", "z">>          \* not hexadecimal
TokT   == <<"T">>
TokX   == <<"x">>
TokY   == <<"y">>

Line3(a, n) == a \o Sp \o TokT \o Sp \o n

Lines ==
    { Line3(a, n) : a \in {TokA1, TokA2, TokBad}, n \in {TokX, TokY} }
    \cup { Sp \o TokA2 \o Sp \o Sp \o TokT \o <<"\t">> \o TokY \o Sp,  \* padded
           <<>>,                                       \* blank line
           TokA1 \o Sp \o TokT,                        \* two tokens
           Line3(TokA1, TokX) \o Sp \o TokY }          \* four tokens

RECURSIVE SeqsUpTo(_, _)
SeqsUpTo(S, n) ==
    IF n = 0 THEN {<<>>}
    ELSE LET shorter == SeqsUpTo(S, n - 1)
         IN  shorter \cup { Append(s, e) : s \in shorter, e \in S }

NotCalled == [raised |-> "not called", sys_map |-> EmptyMap]

SysMapInit ==
    /\ data \in SeqsUpTo(Lines, MaxLines)
    /\ sys_map_result = NotCalled

SysMapIdle ==
    /\ data = <<>>
    /\ sys_map_result = NotCalled

ParseSystemMap ==
    /\ sys_map_result = NotCalled
    /\ sys_map_result' = parse_system_map(data)
    /\ UNCHANGED <<data, compilevars, accessorvars, asvars, timevars>>

SysMapNext == ParseSystemMap

(***************************************************************************)
(* The profile archive.  An entry is a name (a sequence of characters) and *)
(* a payload; the payload records what each reader makes of the bytes:     *)
(* json.loads (doc), dwarfparser.DWARFParser(..).VType() (elf),            *)
(* parse_dwarf_from_dump (dump) and the text lines parse_system_map sees.  *)
(***************************************************************************)
Lowers == <<"a", "b", "c", "d", "e", "f", "g", "h", "i", "j", "k", "l", "m",
            "n", "o", "p", "q", "r", "s", "t", "u", "v", "w", "x", "y", "z">>
Uppers == <<"A", "B", "C", "D", "E", "F", "G", "H", "I", "J", "K", "L", "M",
            "N", "O", "P", "Q", "R", "S", "T", "U", "V", "W", "X", "Y", "Z">>

\* re.I: letters compare without case.
Lower(c) ==
    IF \E i \in 1..Len(Uppers) : Uppers[i] = c
    THEN Lowers[CHOOSE i \in 1..Len(Uppers) : Uppers[i] = c]
    ELSE c

\* re.search(suffix + "$", name, re.I) for a literal suffix.
MatchSuffix(suffix, name) ==
    /\ Len(name) >= Len(suffix)
    /\ \A i \in 1..Len(suffix) :
          Lower(name[Len(name) - Len(suffix) + i]) = suffix[i]

\* re.search(pattern, name, re.I) for a pattern of literals and "." wildcards.
MatchSearch(pattern, name) ==
    \E off \in 0..(Len(name) - Len(pattern)) :
        \A i \in 1..Len(pattern) :
            pattern[i] = "." \/ Lower(name[off + i]) = pattern[i]

\* re.search(regex, f, re.I): a regex is a literal suffix before "$", or a
\* pattern searched for anywhere in the name.
re_search(regex, name) ==
    IF regex.anchored THEN MatchSuffix(regex.pattern, name)
    ELSE MatchSearch(regex.pattern, name)

JsonRegex   == [anchored |-> TRUE, pattern |-> <<".", "j", "s", "o", "n">>]
KoRegex     == [anchored |-> TRUE, pattern |-> <<".", "k", "o">>]
DwarfRegex  == [anchored |-> TRUE, pattern |-> <<".", "d", "w", "a", "r", "f">>]
SysMapRegex == [anchored |-> FALSE,
                pattern |-> <<"s", "y", "s", "t", "e", "m", ".", "m", "a", "p">>]

\* Linux32._match_filename: the entries whose name matches, in namelist order.
_match_filename(regex, zip) == SelectSeq(zip, LAMBDA e : re_search(regex, e.name))

NameAJson   == <<"a", ".", "j", "s", "o", "n">>
NameBJson   == <<"b", ".", "J", "S", "O", "N">>
NameMKo     == <<"m", ".", "k", "o">>
NameNKo     == <<"n", ".", "k", "o">>
NameDwarf   == <<"d", ".", "d", "w", "a", "r", "f">>
NameSysMap  == <<"S", "y", "s", "t", "e", "m", ".", "m", "a", "p">>
NameSysMap2 == <<"s", "y", "s", "t", "e", "m", "-", "m", "a", "p", "2">>
NameReadme  == <<"r", "e", "a", "d", "m", "e">>

\* Bytes that are not line-oriented symbol text: one token on one line.
Garbage == << <<"{">> >>

JsonFile(doc)  == [doc |-> doc, elf |-> "none", dump |-> "none", lines |-> Garbage]
KoFile(vt)     == [doc |-> "invalid", elf |-> vt, dump |-> "none", lines |-> Garbage]
DumpFile(vt)   == [doc |-> "invalid", elf |-> "none", dump |-> vt, lines |-> Garbage]
TextFile(text) == [doc |-> "invalid", elf |-> "none", dump |-> "none", lines |-> text]

TextOne   == << Line3(TokA1, TokX) >>
TextTwo   == << Line3(TokA2, TokY), Line3(TokBad, TokX) >>
TextBlank == << Line3(TokA1, TokY), <<>> >>

Entries ==
    { [name |-> NameAJson, payload |-> JsonFile(d)] : d \in {"null", "LJ"} }
    \cup { [name |-> NameBJson, payload |-> JsonFile("LJ2")] }
    \cup { [name |-> NameMKo, payload |-> KoFile(v)] : v \in {"none", "LK"} }
    \cup { [name |-> NameNKo, payload |-> KoFile("LK2")] }
    \cup { [name |-> NameDwarf, payload |-> DumpFile(v)] : v \in {"none", "LD"} }
    \cup { [name |-> NameSysMap, payload |-> TextFile(t)] : t \in {TextOne, TextBlank} }
    \cup { [name |-> NameSysMap2, payload |-> TextFile(TextTwo)] }
    \cup { [name |-> NameReadme, payload |-> TextFile(<<>>)] }

MaxEntries == 3

DistinctNames(zip) ==
    \A i, j \in 1..Len(zip) : zip[i].name = zip[j].name => i = j

Archives == { z \in SeqsUpTo(Entries, MaxEntries) : DistinctNames(z) }

None == [kind |-> "None"]
Layout(id) == [kind |-> "layout", id |-> id]
Raise(err) == [kind |-> "raise", err |-> err]

\* json.loads(profile_zipfile.read(f))
json_loads(payload) ==
    CASE payload.doc = "invalid" -> Raise("ValueError")
      [] payload.doc = "null"    -> None
      [] OTHER                   -> Layout(payload.doc)

\* dwarfparser.DWARFParser(module).VType(): a layout, or nothing
VType(payload) == IF payload.elf = "none" THEN None ELSE Layout(payload.elf)

\* Linux32.parse_dwarf_from_dump
parse_dwarf_from_dump(payload) ==
    IF payload.dump = "none" THEN None ELSE Layout(payload.dump)

\* The loop over the *.ko entries: the first non-empty extraction.
RECURSIVE FirstModule(_)
FirstModule(kos) ==
    IF kos = <<>> THEN None
    ELSE IF VType(Head(kos).payload) # None
         THEN VType(Head(kos).payload)
         ELSE FirstModule(Tail(kos))

(***************************************************************************)
(* Linux32.load_vtypes.  The first *.json entry decides the json tier:     *)
(* whatever json.loads makes of it is returned, None included.  The *.ko   *)
(* entries are tried only when dwarfparser was imported, and an empty      *)
(* extraction moves on to the next one.  The first *.dwarf entry decides   *)
(* the last tier.  Falling off the end returns None.                       *)
(***************************************************************************)
load_vtypes(zip, has_dwarfparser) ==
    LET jsons  == _match_filename(JsonRegex, zip)
        kos    == _match_filename(KoRegex, zip)
        dwarfs == _match_filename(DwarfRegex, zip)
    IN  IF jsons # <<>> THEN json_loads(Head(jsons).payload)
        ELSE IF has_dwarfparser /\ FirstModule(kos) # None
             THEN FirstModule(kos)
             ELSE IF dwarfs # <<>>
                  THEN parse_dwarf_from_dump(Head(dwarfs).payload)
                  ELSE None

\* Profile.add_constants(**sys_map): a dict update
add_constants(consts, sys_map) ==
    [x \in (DOMAIN consts) \cup (DOMAIN sys_map) |->
        IF x \in DOMAIN sys_map THEN sys_map[x] ELSE consts[x]]

\* Profile.add_types(vtypes)
add_types(typs, vt) == typs \cup {vt.id}

\* The loop of parse_profile_file over the entries matching "system.map":
\* each is parsed and its symbols are added to the profile at once.
RECURSIVE LoadSystemMaps(_, _, _)
LoadSystemMaps(files, consts, found) ==
    IF files = <<>>
    THEN [raised |-> "none", constants |-> consts, found |-> found]
    ELSE LET r == parse_system_map(Head(files).payload.lines)
         IN  IF r.raised # "none"
             THEN [raised |-> r.raised, constants |-> consts, found |-> found]
             ELSE LoadSystemMaps(Tail(files),
                                 add_constants(consts, r.sys_map), TRUE)

\* Linux32.parse_profile_file: the error raised ("none" when it returns),
\* and the profile's tables when it ends.
parse_profile_file(zip, has_dwarfparser, consts, typs) ==
    LET vt == load_vtypes(zip, has_dwarfparser)
        sm == LoadSystemMaps(_match_filename(SysMapRegex, zip), consts, FALSE)
    IN  IF vt.kind = "raise"
        THEN [raised |-> vt.err, vtypes |-> vt, constants |-> consts, types |-> typs]
        ELSE IF sm.raised # "none"
        THEN [raised |-> sm.raised, vtypes |-> vt,
              constants |-> sm.constants, types |-> typs]
        ELSE IF ~sm.found \/ vt = None
        THEN [raised |-> "ProfileError", vtypes |-> vt,
              constants |-> sm.constants, types |-> typs]
        ELSE [raised |-> "none", vtypes |-> vt,
              constants |-> sm.constants, types |-> add_types(typs, vt)]

\* super(Linux32, self).compile(): the base class freezes the profile.
Profile_compile == TRUE

MaxCalls == 2

TokEncoding == <<"default_text_encoding">>

\* Linux32.__init__: add_constants(default_text_encoding="utf8")
InitialConstants == [x \in {TokEncoding} |-> "utf8"]

NotLoaded == [kind |-> "not called"]

CompileInit ==
    /\ archive \in Archives
    /\ dwarfparser \in BOOLEAN
    /\ profile_file \in BOOLEAN
    /\ constants = InitialConstants
    /\ types = {}
    /\ ready = FALSE
    /\ reads = 0
    /\ calls = 0
    /\ outcome = "not called"
    /\ vtypes = NotLoaded

CompileIdle ==
    /\ archive = <<>>
    /\ dwarfparser = FALSE
    /\ profile_file = FALSE
    /\ constants = InitialConstants
    /\ types = {}
    /\ ready = FALSE
    /\ reads = 0
    /\ calls = 0
    /\ outcome = "not called"
    /\ vtypes = NotLoaded

\* Linux32.compile.  Nothing in it looks at whether the profile is already
\* compiled: every call opens and parses the archive again.
Compile ==
    /\ calls < MaxCalls
    /\ calls' = calls + 1
    /\ IF ~profile_file
       THEN /\ outcome' = "ProfileError"
            /\ UNCHANGED <<constants, types, ready, reads, vtypes>>
       ELSE LET r == parse_profile_file(archive, dwarfparser, constants, types)
            IN  /\ reads' = reads + 1
                /\ vtypes' = r.vtypes
                /\ constants' = r.constants
                /\ types' = r.types
                /\ outcome' = IF r.raised = "none" THEN "ok" ELSE r.raised
                /\ ready' = IF r.raised = "none" THEN Profile_compile ELSE ready
    /\ UNCHANGED <<archive, dwarfparser, profile_file>>
    /\ UNCHANGED <<sysmapvars, accessorvars, asvars, timevars>>

CompileNext == Compile

(***************************************************************************)
(* The compatibility accessors.  An instance is described by its layout:   *)
(* the members its type has, and the members of the one nested structure   *)
(* the accessors reach through (fdt, cred, f_path, root).  The value of a  *)
(* field is named by where it lives, so that two routes to a concept give  *)
(* different values.                                                       *)
(***************************************************************************)
Value(via, field) == [kind |-> "value", via |-> via, field |-> field, deref |-> FALSE]

\* obj.CType attribute access: the member's value, or the object model's
\* error for a member the layout does not have.
Member(o, field) ==
    IF field \in o.members THEN Value("self", field) ELSE Raise("FieldNotFound")

\* self.<struct>.<field>
NestedMember(o, struct, field) ==
    IF struct \notin o.members THEN Raise("FieldNotFound")
    ELSE IF field \in o.nested THEN Value(struct, field)
    ELSE Raise("FieldNotFound")

hasattr(o, field) == field \in o.members

\* Pointer.dereference()
dereference(r) == IF r.kind = "value" THEN [r EXCEPT !.deref = TRUE] ELSE r

\* get_dentry with the legacy probe dropped: always through f_path
get_dentry_path_only(o) == NestedMember(o, "f_path", "dentry")

\* linux_file.get_dentry
get_dentry(o) ==
    IF hasattr(o, "f_dentry") THEN Member(o, "f_dentry")
    ELSE NestedMember(o, "f_path", "dentry")

\* linux_file.get_vfsmnt
get_vfsmnt(o) ==
    IF hasattr(o, "f_vfsmnt") THEN Member(o, "f_vfsmnt")
    ELSE NestedMember(o, "f_path", "mnt")

\* get_fds with the probes swapped: the direct field first
get_fds_direct_first(o) ==
    IF hasattr(o, "fd") THEN dereference(Member(o, "fd"))
    ELSE dereference(NestedMember(o, "fdt", "fd"))

\* files_struct.get_fds: the fdt pointer is probed first
get_fds(o) ==
    IF hasattr(o, "fdt") THEN dereference(NestedMember(o, "fdt", "fd"))
    ELSE dereference(Member(o, "fd"))

\* files_struct.get_max_fds: the fdt pointer is probed first
get_max_fds(o) ==
    IF hasattr(o, "fdt") THEN NestedMember(o, "fdt", "max_fds")
    ELSE Member(o, "max_fds")

\* task_struct.uid / gid / euid: self.members.get(name), else self.cred.<name>
CredField(o, name) ==
    IF name \in o.members THEN Member(o, name)
    ELSE NestedMember(o, "cred", name)

uid(o)  == CredField(o, "uid")
gid(o)  == CredField(o, "gid")
euid(o) == CredField(o, "euid")

\* linux_fs_struct.get_root_dentry: before 2.6.26 root is the dentry itself
get_root_dentry(o) ==
    IF hasattr(o, "rootmnt") THEN Member(o, "root")
    ELSE NestedMember(o, "root", "dentry")

\* linux_fs_struct.get_root_mnt
get_root_mnt(o) ==
    IF hasattr(o, "rootmnt") THEN Member(o, "rootmnt")
    ELSE NestedMember(o, "root", "mnt")

\* ---- the layouts the model draws from ----
Instance(cls, own, struct, inner) ==
    { [cls |-> cls, members |-> m, nested |-> n] :
        m \in SUBSET (own \cup {struct}),
        n \in SUBSET inner }

Instances ==
    { o \in Instance("files_struct", {"fd", "max_fds"}, "fdt", {"fd", "max_fds"})
            \cup Instance("task_struct", {"uid", "gid", "euid"}, "cred",
                          {"uid", "gid", "euid"})
            \cup Instance("file", {"f_dentry", "f_vfsmnt"}, "f_path",
                          {"dentry", "mnt"})
            \cup Instance("fs_struct", {"rootmnt"}, "root", {"dentry", "mnt"}) :
        \* a nested structure that is absent has no members
        o.nested # {} => \E st \in {"fdt", "cred", "f_path", "root"} : st \in o.members }

NoCall == [method |-> "none", result |-> None]

AccessorInit ==
    /\ self \in Instances
    /\ acc = NoCall

AccessorIdle ==
    /\ self = [cls |-> "none", members |-> {}, nested |-> {}]
    /\ acc = NoCall

Call(cls, method, result) ==
    /\ self.cls = cls
    /\ acc = NoCall
    /\ acc' = [method |-> method, result |-> result]
    /\ UNCHANGED <<self, sysmapvars, compilevars, asvars, timevars>>

GetDentry     == Call("file", "get_dentry", get_dentry(self))
GetVfsmnt     == Call("file", "get_vfsmnt", get_vfsmnt(self))
GetFds        == Call("files_struct", "get_fds", get_fds(self))
GetMaxFds     == Call("files_struct", "get_max_fds", get_max_fds(self))
Uid           == Call("task_struct", "uid", uid(self))
Gid           == Call("task_struct", "gid", gid(self))
Euid          == Call("task_struct", "euid", euid(self))
GetRootDentry == Call("fs_struct", "get_root_dentry", get_root_dentry(self))
GetRootMnt    == Call("fs_struct", "get_root_mnt", get_root_mnt(self))

AccessorNext ==
    \/ GetDentry \/ GetVfsmnt \/ GetFds \/ GetMaxFds
    \/ Uid \/ Gid \/ Euid \/ GetRootDentry \/ GetRootMnt

(***************************************************************************)
(* task_struct.get_process_address_space.  The raw mm.pgd is translated    *)
(* through the boot address space; the result is handed to the address     *)
(* space class unchecked, and only an AssertionError of its constructor    *)
(* turns into the NoneObject.                                              *)
(***************************************************************************)
MaxVaddr == 2
MaxPaddr == 1
MaxPid   == 2

Vaddrs == 0..MaxVaddr
Paddrs == 0..MaxPaddr

Unavailable == [ok |-> FALSE]
Physical(addr) == [ok |-> TRUE, addr |-> addr]

\* AddressSpace.vtop: the physical address, or nothing for an unmapped one
vtop(vm, vaddr) ==
    IF vaddr \in DOMAIN vm.pagemap THEN Physical(vm.pagemap[vaddr]) ELSE Unavailable

\* The address space class called with base, session and dtb.  The directory
\* table base of an address space is optional; a class may also refuse to be
\* built without one (rejects), with an AssertionError.
AddressSpace(base, session, dtb, rejects) ==
    IF ~dtb.ok /\ rejects THEN Raise("AssertionError")
    ELSE [kind |-> "AddressSpace", base |-> base, session |-> session,
          dtb |-> dtb, name |-> [label |-> "", pid |-> 0]]

NoneObject(reason) == [kind |-> "NoneObject", reason |-> reason]

get_process_address_space(t, vm, rejects) ==
    LET directory_table_base == vtop(vm, t.pgd)
        made == AddressSpace(vm.base, vm.session, directory_table_base, rejects)
    IN  IF made.kind = "raise"
        THEN NoneObject("Unable to get process AS")
        ELSE [made EXCEPT !.name = [label |-> "Process", pid |-> t.pid]]

PageMaps == UNION { [D -> Paddrs] : D \in SUBSET Vaddrs }

NoProcessAS == [kind |-> "not called"]

ASInit ==
    /\ obj_vm \in { [base |-> "image", session |-> "session", pagemap |-> pm] :
                       pm \in PageMaps }
    /\ task \in [pid : 1..MaxPid, pgd : Vaddrs]
    /\ as_asserts \in BOOLEAN
    /\ process_as = NoProcessAS

ASIdle ==
    /\ obj_vm = [base |-> "image", session |-> "session", pagemap |-> EmptyMap]
    /\ task = [pid |-> 1, pgd |-> 0]
    /\ as_asserts = FALSE
    /\ process_as = NoProcessAS

GetProcessAddressSpace ==
    /\ process_as = NoProcessAS
    /\ process_as' = get_process_address_space(task, obj_vm, as_asserts)
    /\ UNCHANGED <<obj_vm, task, as_asserts>>
    /\ UNCHANGED <<sysmapvars, compilevars, accessorvars, timevars>>

ASNext == GetProcessAddressSpace

(***************************************************************************)
(* timespec: the two boot time globals, addition and getboottime.          *)
(***************************************************************************)
NSEC_PER_SEC == 1000000000

MaxAddr == 2
MaxSec  == 2

Timespec(sec, nsec) == [kind |-> "timespec", tv_sec |-> sec, tv_nsec |-> nsec]

\* self.obj_profile.timespec(): a timespec over no memory
EmptyTimespec == Timespec(0, 0)

\* Profile.get_constant: the address, 0 (false) for a name that is not there
get_constant(consts, name) == consts[name]

\* timespec.wall_to_monotonic: without either constant the property falls
\* off its end and returns None.
wall_to_monotonic(consts, mem) ==
    IF get_constant(consts, "wall_to_monotonic") # 0
    THEN mem.timespec[get_constant(consts, "wall_to_monotonic")]
    ELSE IF get_constant(consts, "timekeeper") # 0
    THEN mem.timekeeper_wall[get_constant(consts, "timekeeper")]
    ELSE None

\* timespec.total_sleep_time: the first branch names total_sleep_time, which
\* is no variable of the function (the address is total_sleep_time_addr).
total_sleep_time(consts, mem) ==
    IF get_constant(consts, "total_sleep_time") # 0
    THEN Raise("NameError")
    ELSE IF get_constant(consts, "timekeeper") # 0
    THEN mem.timekeeper_sleep[get_constant(consts, "timekeeper")]
    ELSE EmptyTimespec

\* __add__ with the carry into the seconds lost
add_without_carry(a, b) ==
    IF b.kind # "timespec" THEN Raise("TypeError")
    ELSE Timespec(b.tv_sec + a.tv_sec, (b.tv_nsec + a.tv_nsec) % NSEC_PER_SEC)

\* timespec.__add__: Python's / and % on integers round towards minus
\* infinity, as \div and % do.
__add__(a, b) ==
    IF b.kind # "timespec" THEN Raise("TypeError")
    ELSE LET sec  == b.tv_sec + a.tv_sec
             nsec == b.tv_nsec + a.tv_nsec
         IN  Timespec(sec + (nsec \div NSEC_PER_SEC), nsec % NSEC_PER_SEC)

\* timespec.getboottime.  Both operands are evaluated, then added; None has
\* no __add__ and timespec no __radd__, so None + timespec is a TypeError.
getboottime(consts, mem) ==
    LET wall  == wall_to_monotonic(consts, mem)
        sleep == total_sleep_time(consts, mem)
    IN  IF sleep.kind = "raise" THEN sleep
        ELSE IF wall.kind # "timespec" THEN Raise("TypeError")
        ELSE LET result == __add__(wall, sleep)
             IN  [kind |-> "int",
                  value |-> result.tv_sec + (result.tv_nsec \div NSEC_PER_SEC)]

\* ---- the profiles and memories the model draws from ----
TimeConstants == {"wall_to_monotonic", "total_sleep_time", "timekeeper"}

MemTimespecs == { Timespec(1, 900000000), Timespec(2, 200000000) }

Memories == [timespec : [1..MaxAddr -> MemTimespecs],
             timekeeper_wall : [1..MaxAddr -> MemTimespecs],
             timekeeper_sleep : [1..MaxAddr -> MemTimespecs]]

NoTimeCall == [op |-> "none", result |-> None]

NsecValues == {-1, 0, 200000000, 900000000, 999999999, 1000000000, 1000000001}

Operands == { Timespec(sec, nsec) : sec \in (-1)..MaxSec, nsec \in NsecValues }

NoSum == [a |-> EmptyTimespec, b |-> EmptyTimespec, c |-> EmptyTimespec,
          ab |-> EmptyTimespec, left |-> EmptyTimespec, right |-> EmptyTimespec,
          done |-> FALSE]

TimeInit ==
    /\ tconsts \in [TimeConstants -> 0..MaxAddr]
    /\ tmem \in Memories
    /\ tres = NoTimeCall
    /\ sum = NoSum

IdleMemory == [f \in {"timespec", "timekeeper_wall", "timekeeper_sleep"} |->
                  [a \in 1..MaxAddr |-> EmptyTimespec]]

TimeIdle ==
    /\ tconsts = [n \in TimeConstants |-> 0]
    /\ tmem = IdleMemory
    /\ tres = NoTimeCall
    /\ sum = NoSum

AddInit ==
    /\ tconsts = [n \in TimeConstants |-> 0]
    /\ tmem = IdleMemory
    /\ tres = NoTimeCall
    /\ sum \in { [NoSum EXCEPT !.a = a, !.b = b, !.c = c] :
                    a \in Operands, b \in Operands, c \in Operands }

TimeCall(op, result) ==
    /\ tres = NoTimeCall
    /\ tres' = [op |-> op, result |-> result]
    /\ UNCHANGED <<tconsts, tmem, sum>>
    /\ UNCHANGED <<sysmapvars, compilevars, accessorvars, asvars>>

WallToMonotonic == TimeCall("wall_to_monotonic", wall_to_monotonic(tconsts, tmem))
TotalSleepTime  == TimeCall("total_sleep_time", total_sleep_time(tconsts, tmem))
GetBootTime     == TimeCall("getboottime", getboottime(tconsts, tmem))

TimeNext == WallToMonotonic \/ TotalSleepTime \/ GetBootTime

\* a + b, (a + b) + c and a + (b + c)
Add ==
    /\ ~sum.done
    /\ sum' = [sum EXCEPT !.ab = __add__(sum.a, sum.b),
                          !.left = __add__(__add__(sum.a, sum.b), sum.c),
                          !.right = __add__(sum.a, __add__(sum.b, sum.c)),
                          !.done = TRUE]
    /\ UNCHANGED <<tconsts, tmem, tres>>
    /\ UNCHANGED <<sysmapvars, compilevars, accessorvars, asvars>>

AddNext == Add

(***************************************************************************)
(* The specifications: one per component, the others idle.                 *)
(***************************************************************************)
InitSysMap   == SysMapInit /\ CompileIdle /\ AccessorIdle /\ ASIdle /\ TimeIdle
InitCompile  == SysMapIdle /\ CompileInit /\ AccessorIdle /\ ASIdle /\ TimeIdle
InitAccessor == SysMapIdle /\ CompileIdle /\ AccessorInit /\ ASIdle /\ TimeIdle
InitAS       == SysMapIdle /\ CompileIdle /\ AccessorIdle /\ ASInit /\ TimeIdle
InitTime     == SysMapIdle /\ CompileIdle /\ AccessorIdle /\ ASIdle /\ TimeInit
InitAdd      == SysMapIdle /\ CompileIdle /\ AccessorIdle /\ ASIdle /\ AddInit

SpecSysMap   == InitSysMap /\ [][SysMapNext]_vars
SpecCompile  == InitCompile /\ [][CompileNext]_vars
SpecAccessor == InitAccessor /\ [][AccessorNext]_vars
SpecAS       == InitAS /\ [][ASNext]_vars
SpecTime     == InitTime /\ [][TimeNext]_vars
SpecAdd      == InitAdd /\ [][AddNext]_vars

Init == InitCompile
Next == CompileNext
Spec == Init /\ [][Next]_vars

(***************************************************************************)
(* Symbol-map parsing.                                                     *)
(***************************************************************************)
WellFormed(line) == Len(split(line)) = 3 /\ IsHex(split(line)[1])

WellFormedAt(text) == { i \in 1..Len(text) : WellFormed(text[i]) }

LastOf(text, symbol) ==
    CHOOSE i \in WellFormedAt(text) :
        /\ split(text[i])[3] = symbol
        /\ \A j \in WellFormedAt(text) : split(text[j])[3] = symbol => j <= i

\* The symbols of the well-formed lines, each at its last address.
ExpectedSysMap(text) ==
    [ symbol \in { split(text[i])[3] : i \in WellFormedAt(text) } |->
        long16(split(text[LastOf(text, symbol)])[1]) ]

\* C3: parse_system_map returns for every text, and returns exactly the
\* symbols of the well-formed lines, each mapped to the address of its last
\* well-formed occurrence.
C3_ParseSystemMapTotal ==
    sys_map_result # NotCalled =>
        /\ sys_map_result.raised = "none"
        /\ sys_map_result.sys_map = ExpectedSysMap(data)

(***************************************************************************)
(* Layout ingestion and compilation.                                       *)
(***************************************************************************)
\* What the reader of a tier makes of a file.
ReadBy(tier, payload) ==
    CASE tier = "json"   -> json_loads(payload)
      [] tier = "module" -> VType(payload)
      [] tier = "dump"   -> parse_dwarf_from_dump(payload)

\* The first of the files (in namelist order) that yields a layout.
FirstLayout(files, tier) ==
    LET good == SelectSeq(files, LAMBDA e : ReadBy(tier, e.payload).kind = "layout")
    IN  IF good = <<>> THEN None ELSE ReadBy(tier, Head(good).payload)

\* The first usable layout in tier order: json, then module, then dump.
FirstUsable(zip, has_dwarfparser) ==
    LET j == FirstLayout(_match_filename(JsonRegex, zip), "json")
        k == IF has_dwarfparser
             THEN FirstLayout(_match_filename(KoRegex, zip), "module") ELSE None
        d == FirstLayout(_match_filename(DwarfRegex, zip), "dump")
    IN  IF j # None THEN j ELSE IF k # None THEN k ELSE d

\* C4: load_vtypes returns the first usable layout in the order json, module
\* (skipped without the extractor), dump; a tier without a usable layout does
\* not keep a lower tier from being used, and the result is "not found" only
\* when no tier has a usable layout.
C4_FirstUsableTier ==
    vtypes # NotLoaded => vtypes = FirstUsable(archive, dwarfparser)

Incomplete(zip, has_dwarfparser) ==
    \/ _match_filename(SysMapRegex, zip) = <<>>
    \/ FirstUsable(zip, has_dwarfparser) = None

\* C1: a compile of an archive without a symbol map or without a usable
\* layout source fails with the profile error and leaves the constants, the
\* types and the frozen flag as they were.
C1_AllOrNothing ==
    [][ (calls' = calls + 1 /\ Incomplete(archive, dwarfparser)) =>
            /\ outcome' = "ProfileError"
            /\ constants' = constants
            /\ types' = types
            /\ ~ready' ]_vars

\* C2: a compile call on a frozen profile reads and parses nothing and leaves
\* the constant and type tables as they are.
C2_CompileIdempotent ==
    [][ (ready /\ calls' = calls + 1) =>
            /\ reads' = reads
            /\ constants' = constants
            /\ types' = types ]_vars

(***************************************************************************)
(* Compatibility accessors.  Each concept has a legacy route (a member of  *)
(* the structure itself, probed by `probe`) and a modern route (a member   *)
(* of the nested structure `struct`).                                      *)
(***************************************************************************)
Concept(probe, legacy, struct, field, deref) ==
    [probe |-> probe, legacy |-> legacy, struct |-> struct, field |-> field,
     deref |-> deref]

Concepts ==
    [ get_fds         |-> Concept("fd", "fd", "fdt", "fd", TRUE),
      get_max_fds     |-> Concept("max_fds", "max_fds", "fdt", "max_fds", FALSE),
      uid             |-> Concept("uid", "uid", "cred", "uid", FALSE),
      gid             |-> Concept("gid", "gid", "cred", "gid", FALSE),
      euid            |-> Concept("euid", "euid", "cred", "euid", FALSE),
      get_dentry      |-> Concept("f_dentry", "f_dentry", "f_path", "dentry", FALSE),
      get_vfsmnt      |-> Concept("f_vfsmnt", "f_vfsmnt", "f_path", "mnt", FALSE),
      get_root_dentry |-> Concept("rootmnt", "root", "root", "dentry", FALSE),
      get_root_mnt    |-> Concept("rootmnt", "rootmnt", "root", "mnt", FALSE) ]

LegacyValue(c) == [Value("self", c.legacy) EXCEPT !.deref = c.deref]
ModernValue(c) == [Value(c.struct, c.field) EXCEPT !.deref = c.deref]

LegacyExposed(o, c) == c.probe \in o.members /\ c.legacy \in o.members
ModernExposed(o, c) == c.struct \in o.members /\ c.field \in o.nested

\* The nested structure of the modern route is there at all.  For fs_struct
\* both routes start at root: the modern one needs root to be a structure.
ModernStruct(o, c) ==
    IF c.struct = c.legacy THEN o.nested # {} ELSE c.struct \in o.members

OnlyLegacy(o, c) == LegacyExposed(o, c) /\ ~ModernStruct(o, c)
OnlyModern(o, c) == ModernExposed(o, c) /\ c.probe \notin o.members
Neither(o, c) ==
    c.probe \notin o.members /\ c.legacy \notin o.members /\ c.struct \notin o.members

Called == acc.method # "none"
TheConcept == Concepts[acc.method]

\* C5 as stated: on a layout with both routes every accessor returns the
\* legacy (direct) value.
C5_DirectFirstEverywhere ==
    (Called /\ LegacyExposed(self, TheConcept) /\ ModernExposed(self, TheConcept))
        => acc.result = LegacyValue(TheConcept)

\* C5 as the code has it: on a layout with both routes, get_fds and
\* get_max_fds return the value reached through fdt, and every other
\* accessor returns the legacy (direct) value.
C5_PriorityAsCoded ==
    (Called /\ LegacyExposed(self, TheConcept) /\ ModernExposed(self, TheConcept))
        => acc.result = IF acc.method \in {"get_fds", "get_max_fds"}
                        THEN ModernValue(TheConcept)
                        ELSE LegacyValue(TheConcept)

C5_Witness ==
    /\ acc.method = "get_fds"
    /\ LegacyExposed(self, TheConcept) /\ ModernExposed(self, TheConcept)
    /\ acc.result = ModernValue(Concepts["get_fds"])

C7_ProcessAddressSpace ==
    process_as # NoProcessAS =>
        LET dtb == vtop(obj_vm, task.pgd)
        IN  /\ ~dtb.ok => process_as.kind = "NoneObject"
            /\ dtb.ok => process_as =
                   [kind |-> "AddressSpace", base |-> obj_vm.base,
                    session |-> obj_vm.session, dtb |-> dtb,
                    name |-> [label |-> "Process", pid |-> task.pid]]

(***************************************************************************)
(* Boot time.                                                              *)
(***************************************************************************)
\* C8: with none of wall_to_monotonic, total_sleep_time and timekeeper in
\* the profile, both accessors return the empty timespec and getboottime
\* returns 0.
C8_NeitherResolves ==
    (tres.op # "none" /\ \A n \in TimeConstants : tconsts[n] = 0) =>
        tres.result = IF tres.op = "getboottime"
                      THEN [kind |-> "int", value |-> 0]
                      ELSE EmptyTimespec

\* C10: each of the two globals is the timespec at its own symbol when that
\* is a constant, else the field of that name of the timekeeper when that is
\* a constant.
C10_ResolutionOrder ==
    tres.op \in {"wall_to_monotonic", "total_sleep_time"} =>
        /\ tconsts[tres.op] # 0 => tres.result = tmem.timespec[tconsts[tres.op]]
        /\ (tconsts[tres.op] = 0 /\ tconsts["timekeeper"] # 0) =>
              tres.result =
                  IF tres.op = "wall_to_monotonic"
                  THEN tmem.timekeeper_wall[tconsts["timekeeper"]]
                  ELSE tmem.timekeeper_sleep[tconsts["timekeeper"]]

(***************************************************************************)
(* Addition.                                                               *)
(***************************************************************************)
Normalized(r) == r.kind = "timespec" /\ 0 <= r.tv_nsec /\ r.tv_nsec < NSEC_PER_SEC

\* r holds as many nanoseconds as a and b together: the seconds r gained
\* are the nanoseconds it lost.
SameTotal(r, a, b) ==
    \E carry \in (-2)..2 :
        /\ r.tv_sec = a.tv_sec + b.tv_sec + carry
        /\ a.tv_nsec + b.tv_nsec = carry * NSEC_PER_SEC + r.tv_nsec

\* C9: a + b is normalized and holds the operands' total; so both groupings
\* of three operands agree, and (1, 900000000) + (2, 200000000) + (0, 0) is
\* (4, 100000000) either way.
C9_AddNormalizes ==
    sum.done =>
        /\ Normalized(sum.ab) /\ SameTotal(sum.ab, sum.a, sum.b)
        /\ Normalized(sum.left) /\ SameTotal(sum.left, sum.ab, sum.c)
        /\ sum.left = sum.right
        /\ (/\ sum.a = Timespec(1, 900000000)
            /\ sum.b = Timespec(2, 200000000)
            /\ sum.c = Timespec(0, 0)) => sum.left = Timespec(4, 100000000)

C9_Witness ==
    /\ sum.done
    /\ sum.a = Timespec(1, 900000000)
    /\ sum.b = Timespec(2, 200000000)
    /\ sum.c = Timespec(0, 0)
    /\ sum.left = Timespec(4, 100000000)
    /\ sum.right = Timespec(4, 100000000)
====
